---- MODULE Spec2Model ----
(***************************************************************************)
(* Model of src/app.py: the Trans.eu API client (token cache, proposal     *)
(* fetch, freight normalisation, arbitrage detection) and the route        *)
(* handlers built on it.                                                   *)
(*                                                                         *)
(* Python optionals are modelled as sequences: None is <<>>, a value v is  *)
(* <<v>>.  Times are whole seconds.  A token value is the number of the    *)
(* grant whose response carried it, so two grants never share a value.     *)
(***************************************************************************)
EXTENDS Integers, Sequences, FiniteSets, TLC

VARIABLES
    creds,              \* api_key / client_id / client_secret: None or <<1>>
    clock,              \* datetime.now(), in seconds
    ticks,              \* how many times the model has advanced the clock
    access_token,       \* self.access_token
    token_expires_at,   \* self.token_expires_at
    grants,             \* POSTs received by the token endpoint so far
    listing_requests,   \* GETs received by the listing endpoint so far
    pc,                 \* per caller: position in the running operation
    op,                 \* per caller: the operation it runs
    resp,               \* per caller: the token endpoint's response in hand
    ret,                \* per caller: what get_access_token returned / raised
    outcome,            \* per caller: how its last operation ended
    sent,               \* per caller: grants sent by its current call (history)
    seen,               \* per caller: what its current call read at line 169 (history)
    expiry_cycle,       \* grant whose response set token_expires_at (history)
    stamp,              \* clock and expires_in of the last expiry store (history)
    proposals,          \* extract_freight_data: its argument
    idx,                \* extract_freight_data: position of the loop in proposals
    freight,            \* extract_freight_data: the local variable freight
    freight_data,       \* extract_freight_data: the list being built
    nstate,             \* extract_freight_data: running / returned / raised
    records,            \* the freight_data handed to the analysis
    dstate,             \* analysis: ready / detected / detailed
    opportunities,      \* what detect_arbitrage_opportunities returned
    route_result        \* what get_route_details answered

tokvars == <<creds, clock, ticks, access_token, token_expires_at, grants,
             listing_requests, pc, op, resp, ret, outcome, sent, seen,
             expiry_cycle, stamp>>

normvars == <<proposals, idx, freight, freight_data, nstate>>

detvars == <<records, dstate, opportunities, route_result>>

vars == <<tokvars, normvars, detvars>>

-----------------------------------------------------------------------------
(* Bounds and program constants *)

NThreads == 2
MaxGrants == 2
MaxListing == 1
MaxTicks == 2
MaxOffers == 3
MaxRecords == 4

Margin == 60
DefaultTtl == 3600
VolatilityThreshold == 200   \* 0.2, in thousandths
MinCount == 2

None == <<>>
Some(v) == <<v>>

Threads == 1..NThreads
TtlValues == {30, 60, 120}
TickSteps == {Margin, DefaultTtl - Margin}

ClientOps == {"get_access_token", "get_headers", "get_freight_proposals"}
HandlerOps == {"api_status", "get_freights", "analyze_arbitrage", "get_route_details"}
ListingOps == {"get_freight_proposals", "get_freights", "analyze_arbitrage",
               "get_route_details"}

-----------------------------------------------------------------------------
(* TransEuAPIClient: credentials and the token cache *)

\* Python truthiness of the values the model produces (None is falsy; a
\* token string, a credential string and a datetime are truthy).
Truthy(x) == x # None

is_configured ==
    Truthy(creds.api_key) /\ Truthy(creds.client_id) /\ Truthy(creds.client_secret)

CachedValid_Inclusive(tok, exp, now) ==
    Truthy(tok) /\ Truthy(exp) /\ now <= exp[1]
\* line 169: the cached token is served
CachedValid(tok, exp, now) ==
    Truthy(tok) /\ Truthy(exp) /\ now < exp[1]

\* line 189: token_data.get('expires_in', 3600)
ExpiresIn(token_data) ==
    IF token_data.expires_in.kind = "absent" THEN DefaultTtl
    ELSE token_data.expires_in.n

ExpiresAt_ClampedMargin(now, token_data) ==
    IF ExpiresIn(token_data) <= Margin THEN now
    ELSE now + ExpiresIn(token_data) - Margin
\* line 191: datetime.now() + timedelta(seconds=expires_in - 60)
ExpiresAt(now, token_data) == now + (ExpiresIn(token_data) - Margin)

\* The token endpoint's possible answers to grant number g.
ExpiresInValues ==
    {[kind |-> "absent", n |-> 0], [kind |-> "bad", n |-> 0]}
    \cup {[kind |-> "int", n |-> n] : n \in TtlValues}

Responses(g) ==
    {[status |-> "error", access_token |-> None,
      expires_in |-> [kind |-> "absent", n |-> 0]],
     [status |-> "ok", access_token |-> None,
      expires_in |-> [kind |-> "absent", n |-> 0]]}
    \cup {[status |-> "ok", access_token |-> Some(g), expires_in |-> e] :
            e \in ExpiresInValues}

NoResp == [status |-> "none", access_token |-> None,
           expires_in |-> [kind |-> "absent", n |-> 0]]
NoRet == [kind |-> "none", value |-> None]
Raised == [kind |-> "error", value |-> None]
Returned(tok) == [kind |-> "ok", value |-> tok]
NoSeen == [called |-> FALSE, tok |-> None, exp |-> None, now |-> 0, grants |-> 0]
NoStamp == [now |-> 0, expires_in |-> [kind |-> "absent", n |-> 0]]

TokenCycle == IF access_token = None THEN 0 ELSE access_token[1]

-----------------------------------------------------------------------------
(* Steps of one caller t *)

\* A caller starts operation k.  The four route handlers test
\* is_configured() first (lines 323, 355, 397, 459); the client's own
\* methods do not.
Start(t, k) ==
    /\ pc[t] = "idle"
    /\ op' = [op EXCEPT ![t] = k]
    /\ ret' = [ret EXCEPT ![t] = NoRet]
    /\ sent' = [sent EXCEPT ![t] = 0]
    /\ IF k \in HandlerOps /\ ~is_configured
       THEN /\ outcome' = [outcome EXCEPT ![t] = "not_configured"]
            /\ UNCHANGED pc
       ELSE /\ outcome' = [outcome EXCEPT ![t] = "none"]
            /\ pc' = [pc EXCEPT ![t] = "l169"]
    /\ seen' = [seen EXCEPT ![t] = NoSeen]
    /\ UNCHANGED <<normvars, detvars>>
    /\ UNCHANGED <<creds, clock, ticks, access_token, token_expires_at, grants,
                   listing_requests, resp, expiry_cycle, stamp>>

\* get_access_token, line 169
Check(t) ==
    /\ pc[t] = "l169"
    /\ pc' = [pc EXCEPT ![t] =
                IF CachedValid(access_token, token_expires_at, clock)
                THEN "l170" ELSE "l182"]
    /\ seen' = [seen EXCEPT ![t] =
                  [called |-> TRUE, tok |-> access_token, exp |-> token_expires_at,
                   now |-> clock, grants |-> grants]]
    /\ UNCHANGED <<normvars, detvars>>
    /\ UNCHANGED <<creds, clock, ticks, access_token, token_expires_at, grants,
                   listing_requests, op, resp, ret, outcome, sent,
                   expiry_cycle, stamp>>

\* get_access_token, line 170
ReturnCached(t) ==
    /\ pc[t] = "l170"
    /\ ret' = [ret EXCEPT ![t] = Returned(access_token)]
    /\ pc' = [pc EXCEPT ![t] = "done"]
    /\ UNCHANGED <<normvars, detvars>>
    /\ UNCHANGED <<creds, clock, ticks, access_token, token_expires_at, grants,
                   listing_requests, op, resp, outcome, sent, seen,
                   expiry_cycle, stamp>>

\* get_access_token, lines 172-182: the grant is sent and answered
Post(t) ==
    /\ pc[t] = "l182"
    /\ grants < MaxGrants
    /\ grants' = grants + 1
    /\ sent' = [sent EXCEPT ![t] = @ + 1]
    /\ \E r \in Responses(grants + 1) : resp' = [resp EXCEPT ![t] = r]
    /\ pc' = [pc EXCEPT ![t] = "l183"]
    /\ UNCHANGED <<normvars, detvars>>
    /\ UNCHANGED <<creds, clock, ticks, access_token, token_expires_at,
                   listing_requests, op, ret, outcome, seen, expiry_cycle, stamp>>

\* get_access_token, lines 183-186: raise_for_status, json, store the token
StoreToken(t) ==
    /\ pc[t] = "l183"
    /\ IF resp[t].status # "ok" \/ resp[t].access_token = None
       THEN /\ ret' = [ret EXCEPT ![t] = Raised]
            /\ resp' = [resp EXCEPT ![t] = NoResp]
            /\ pc' = [pc EXCEPT ![t] = "done"]
            /\ UNCHANGED access_token
       ELSE /\ access_token' = resp[t].access_token
            /\ pc' = [pc EXCEPT ![t] = "l189"]
            /\ UNCHANGED <<ret, resp>>
    /\ UNCHANGED <<normvars, detvars>>
    /\ UNCHANGED <<creds, clock, ticks, token_expires_at, grants, listing_requests,
                   op, outcome, sent, seen, expiry_cycle, stamp>>

\* get_access_token, lines 189-191: store the expiry
StoreExpiry(t) ==
    /\ pc[t] = "l189"
    /\ IF resp[t].expires_in.kind = "bad"
       THEN /\ ret' = [ret EXCEPT ![t] = Raised]
            /\ pc' = [pc EXCEPT ![t] = "done"]
            /\ UNCHANGED <<token_expires_at, expiry_cycle, stamp>>
       ELSE /\ token_expires_at' = Some(ExpiresAt(clock, resp[t]))
            /\ expiry_cycle' = resp[t].access_token[1]
            /\ stamp' = [now |-> clock, expires_in |-> resp[t].expires_in]
            /\ pc' = [pc EXCEPT ![t] = "l193"]
            /\ UNCHANGED ret
    /\ resp' = [resp EXCEPT ![t] = NoResp]
    /\ UNCHANGED <<normvars, detvars>>
    /\ UNCHANGED <<creds, clock, ticks, access_token, grants, listing_requests, op,
                   outcome, sent, seen>>

\* get_access_token, line 193
Return(t) ==
    /\ pc[t] = "l193"
    /\ ret' = [ret EXCEPT ![t] = Returned(access_token)]
    /\ pc' = [pc EXCEPT ![t] = "done"]
    /\ UNCHANGED <<normvars, detvars>>
    /\ UNCHANGED <<creds, clock, ticks, access_token, token_expires_at, grants,
                   listing_requests, op, resp, outcome, sent, seen,
                   expiry_cycle, stamp>>

\* get_access_token is back in its caller.  get_headers (195-202) and
\* api_status (467-480) end here; the listing operations go on to the GET
\* of line 219 unless the token call raised.
AfterToken(t) ==
    /\ pc[t] = "done"
    /\ IF ret[t].kind = "error"
       THEN /\ outcome' = [outcome EXCEPT ![t] = "error"]
            /\ pc' = [pc EXCEPT ![t] = "idle"]
       ELSE IF op[t] \in ListingOps
            THEN /\ pc' = [pc EXCEPT ![t] = "l219"]
                 /\ UNCHANGED outcome
            ELSE /\ outcome' = [outcome EXCEPT ![t] = "success"]
                 /\ pc' = [pc EXCEPT ![t] = "idle"]
    /\ UNCHANGED <<normvars, detvars>>
    /\ UNCHANGED <<creds, clock, ticks, access_token, token_expires_at, grants,
                   listing_requests, op, resp, ret, sent, seen, expiry_cycle, stamp>>

\* get_freight_proposals, lines 219-223: the listing GET and its status
ListingGet(t) ==
    /\ pc[t] = "l219"
    /\ listing_requests < MaxListing
    /\ listing_requests' = listing_requests + 1
    /\ \E ok \in BOOLEAN :
          outcome' = [outcome EXCEPT ![t] = IF ok THEN "success" ELSE "error"]
    /\ pc' = [pc EXCEPT ![t] = "idle"]
    /\ UNCHANGED <<normvars, detvars>>
    /\ UNCHANGED <<creds, clock, ticks, access_token, token_expires_at, grants, op,
                   resp, ret, sent, seen, expiry_cycle, stamp>>

\* Time passes.
Tick ==
    /\ ticks < MaxTicks
    /\ ticks' = ticks + 1
    /\ \E d \in TickSteps : clock' = clock + d
    /\ UNCHANGED <<normvars, detvars>>
    /\ UNCHANGED <<creds, access_token, token_expires_at, grants,
                   listing_requests, pc, op, resp, ret, outcome, sent, seen,
                   expiry_cycle, stamp>>

-----------------------------------------------------------------------------
(* extract_freight_data (lines 225-284)                                     *)
(*                                                                         *)
(* A JSON value is modelled by its kind and, for a mapping, its fields:    *)
(* "dict" a mapping, "list" a list, "absent" a key that is missing,        *)
(* "null" a JSON null, "other" a value of another type (a number).         *)
(* A scalar field is None when its key is missing.                         *)

Str(s) == [kind |-> "str", s |-> s]
NoStr == [kind |-> "absent", s |-> ""]
NullStr == [kind |-> "null", s |-> ""]

EmptyAddress == [kind |-> "dict", country |-> NoStr, locality |-> NoStr]
EmptyPlace == [kind |-> "dict", address |-> [EmptyAddress EXCEPT !.kind = "absent"]]
EmptySpot == [kind |-> "dict", place |-> [EmptyPlace EXCEPT !.kind = "absent"]]
EmptyPrice == [kind |-> "dict", value |-> None, currency |-> None]
EmptyPublication == [kind |-> "dict", price |-> [EmptyPrice EXCEPT !.kind = "absent"]]
EmptyCapacity == [kind |-> "dict", value |-> None, unit_code |-> None]
EmptyFreight ==
    [kind |-> "dict", id |-> None, distance |-> None,
     publication |-> [EmptyPublication EXCEPT !.kind = "absent"],
     capacity |-> [EmptyCapacity EXCEPT !.kind = "absent"],
     spots |-> [kind |-> "absent", items |-> <<>>]]

\* d.get(key, {}) and d.get(key, []): the default stands in for a missing key
GetOr(v, default) == IF v.kind = "absent" THEN default ELSE v
\* d.get(key, default) for a scalar
GetVal(v, default) == IF v = None THEN default ELSE v[1]

\* str.upper() on the country codes the model uses
Upper(s) ==
    CASE s = "de" -> "DE"
      [] s = "fr" -> "FR"
      [] s = "pl" -> "PL"
      [] s = "de-fr" -> "DE-FR"
      [] s = "pl-de" -> "PL-DE"
      [] OTHER -> s

\* A stop with a country and a city, and a whole well-formed offer.
Spot(country, city) ==
    [kind |-> "dict",
     place |-> [kind |-> "dict",
                address |-> [kind |-> "dict", country |-> Str(country),
                             locality |-> Str(city)]]]

Offer(id, price, stops) ==
    [kind |-> "dict", status |-> Some("published"),
     freight |->
        [kind |-> "dict", id |-> Some(id), distance |-> Some(500),
         publication |-> [kind |-> "dict",
                          price |-> [kind |-> "dict", value |-> Some(price),
                                     currency |-> Some("PLN")]],
         capacity |-> [kind |-> "dict", value |-> Some(24), unit_code |-> Some("kg")],
         spots |-> [kind |-> "list", items |-> stops]]]

Berlin == Spot("de", "Berlin")
Paris == Spot("FR", "Paris")
Lodz == Spot("pl", "Lodz")

\* Offers every sub-structure of which is a mapping / list or missing.
WellFormedOffers ==
    {Offer(1, 100, <<Berlin, Paris>>),
     Offer(2, 80, <<Lodz, Paris, Berlin>>),
     Offer(3, 50, <<Berlin>>),
     [Offer(4, 70, <<>>) EXCEPT !.freight.spots.kind = "absent"],
     [Offer(5, 0, <<Lodz, EmptySpot>>) EXCEPT
         !.freight.publication.kind = "absent",
         !.freight.capacity.kind = "absent",
         !.freight.distance = None],
     [Offer(6, 0, <<>>) EXCEPT !.freight = [EmptyFreight EXCEPT !.kind = "absent"]]}

\* Offers with a sub-structure that is null or of the wrong type.
MalformedOffers ==
    {[Offer(7, 10, <<Berlin, Paris>>) EXCEPT !.kind = "other"],
     [Offer(8, 10, <<Berlin, Paris>>) EXCEPT !.freight.kind = "null"],
     [Offer(9, 10, <<Berlin, Paris>>) EXCEPT !.freight.kind = "other"],
     [Offer(10, 10, <<Berlin, Paris>>) EXCEPT !.freight.publication.kind = "null"],
     [Offer(11, 10, <<Berlin, Paris>>) EXCEPT !.freight.capacity.kind = "other"],
     [Offer(12, 10, <<>>) EXCEPT !.freight.spots.kind = "null"],
     Offer(13, 10, <<Berlin, [Paris EXCEPT !.place.address.kind = "null"]>>),
     Offer(14, 10, <<[Berlin EXCEPT !.place.address.country = NullStr], Paris>>)}

OfferPool == WellFormedOffers \cup MalformedOffers

\* ---- one pass of the loop body ----

\* line 231: proposal.get('freight', {})
FreightOf(p) == GetOr(p.freight, EmptyFreight)
\* line 238
PublicationOf(f) == GetOr(f.publication, EmptyPublication)
\* line 239
PriceInfoOf(f) == GetOr(PublicationOf(f).price, EmptyPrice)
\* line 244
CapacityInfoOf(f) == GetOr(f.capacity, EmptyCapacity)
\* line 249: freight.get('spots', [])
SpotsOf(f) == GetOr(f.spots, [kind |-> "list", items |-> <<>>])
\* lines 253, 259: spot.get('place', {}).get('address', {})
AddressOf(spot) == GetOr(GetOr(spot.place, EmptyPlace).address, EmptyAddress)

HasRoute_OneStop(spots) == Len(spots) >= 1
\* line 250: len(spots) >= 2
HasRoute(spots) == Len(spots) >= 2

\* lines 252-255, 258-261 raise for this stop
StopRaises(spot) ==
    \/ spot.kind # "dict"
    \/ GetOr(spot.place, EmptyPlace).kind # "dict"
    \/ AddressOf(spot).kind # "dict"
    \/ AddressOf(spot).country.kind = "null"

\* Some line of the try body (231-278) raises for proposal p.
BodyRaises(p) ==
    \/ p.kind # "dict"
    \/ FreightOf(p).kind # "dict"
    \/ PublicationOf(FreightOf(p)).kind # "dict"
    \/ PriceInfoOf(FreightOf(p)).kind # "dict"
    \/ CapacityInfoOf(FreightOf(p)).kind # "dict"
    \/ SpotsOf(FreightOf(p)).kind # "list"
    \/ LET spots == SpotsOf(FreightOf(p)).items
       IN  HasRoute(spots) /\ (StopRaises(spots[1]) \/ StopRaises(spots[Len(spots)]))

\* The local variable freight once the body has run for p: line 231 binds
\* it unless proposal.get itself raised, and then it keeps its old binding.
FreightAfter(p, old) ==
    IF p.kind = "dict" THEN [bound |-> TRUE, kind |-> FreightOf(p).kind] ELSE old

\* line 281: the handler's own freight.get('id', 'unknown') raises
HandlerRaises(f) == ~f.bound \/ f.kind # "dict"

CountryOf(spot) ==
    LET c == AddressOf(spot).country IN Upper(IF c.kind = "absent" THEN "" ELSE c.s)
CityOf(spot) ==
    LET c == AddressOf(spot).locality IN IF c.kind = "absent" THEN "" ELSE c.s

\* lines 263-276
FreightRecord(p) ==
    LET f == FreightOf(p)
        spots == SpotsOf(f).items
        loading == spots[1]
        unloading == spots[Len(spots)]
    IN  [freight_id |-> f.id,
         status |-> p.status,
         price |-> GetVal(PriceInfoOf(f).value, 0),
         currency |-> GetVal(PriceInfoOf(f).currency, "EUR"),
         capacity |-> GetVal(CapacityInfoOf(f).value, 0),
         capacity_unit |-> GetVal(CapacityInfoOf(f).unit_code, "t"),
         loading_country |-> CountryOf(loading),
         loading_city |-> CityOf(loading),
         unloading_country |-> CountryOf(unloading),
         unloading_city |-> CityOf(unloading),
         route |-> CountryOf(loading) \o "-" \o CountryOf(unloading),
         distance_km |-> GetVal(f.distance, 0)]

\* lines 229-282: the loop body for proposals[idx]
ExtractStep ==
    /\ nstate = "running"
    /\ idx <= Len(proposals)
    /\ LET p == proposals[idx]
           f == FreightAfter(p, freight)
       IN  /\ freight' = f
           /\ IF BodyRaises(p)
              THEN IF HandlerRaises(f)
                   THEN /\ nstate' = "raised"
                        /\ UNCHANGED <<idx, freight_data>>
                   ELSE /\ idx' = idx + 1
                        /\ UNCHANGED <<nstate, freight_data>>
              ELSE /\ idx' = idx + 1
                   /\ freight_data' =
                        IF HasRoute(SpotsOf(FreightOf(p)).items)
                        THEN Append(freight_data, FreightRecord(p))
                        ELSE freight_data
                   /\ UNCHANGED nstate
    /\ UNCHANGED proposals
    /\ UNCHANGED <<tokvars, detvars>>

\* line 284
ExtractReturn ==
    /\ nstate = "running"
    /\ idx > Len(proposals)
    /\ nstate' = "returned"
    /\ UNCHANGED <<proposals, idx, freight, freight_data>>
    /\ UNCHANGED <<tokvars, detvars>>

-----------------------------------------------------------------------------
(* detect_arbitrage_opportunities (lines 286-313) and the statistics of     *)
(* get_route_details (lines 407-431)                                        *)
(*                                                                         *)
(* Decimals are fixed-point integers: prices, means, minima and maxima in  *)
(* hundredths where rounded to 2 places, volatilities in thousandths.      *)

\* The routes of the model in ascending string order, the order in which
\* groupby('route') (sort=True by default) lists its groups.
RouteOrder == <<"DE-FR", "PL-DE">>
Routes == {RouteOrder[i] : i \in 1..Len(RouteOrder)}
Prices == {0, 9, 11, 12}
RouteCodes == {"de-fr", "PL-DE", "ES-IT"}

RECURSIVE Sum(_)
Sum(ps) == IF ps = <<>> THEN 0 ELSE Head(ps) + Sum(Tail(ps))

RECURSIVE Min(_)
Min(ps) ==
    IF Len(ps) = 1 THEN Head(ps)
    ELSE LET m == Min(Tail(ps)) IN IF Head(ps) <= m THEN Head(ps) ELSE m

RECURSIVE Max(_)
Max(ps) ==
    IF Len(ps) = 1 THEN Head(ps)
    ELSE LET m == Max(Tail(ps)) IN IF Head(ps) >= m THEN Head(ps) ELSE m

\* round(): n / d to the nearest integer, halves to the even one (n >= 0, d > 0)
RoundHalfEven(n, d) ==
    LET q == n \div d
        r == n % d
    IN  IF 2 * r < d THEN q
        ELSE IF 2 * r > d THEN q + 1
        ELSE IF q % 2 = 0 THEN q ELSE q + 1

PricesOf(recs, route) ==
    LET OnRoute(f) == f.route = route
        sel == SelectSeq(recs, OnRoute)
    IN  [i \in 1..Len(sel) |-> sel[i].price]

\* line 304: price_mean.replace(0, 1), on hundredths
ReplaceZero(mean) == IF mean = 0 THEN 100 ELSE mean

\* lines 294-305: one row of route_analysis
RouteRow(recs, route) ==
    LET ps == PricesOf(recs, route)
        mean == RoundHalfEven(100 * Sum(ps), Len(ps))
        lo == 100 * Min(ps)
        hi == 100 * Max(ps)
    IN  [route |-> route,
         price_mean |-> mean,
         price_min |-> lo,
         price_max |-> hi,
         price_count |-> Len(ps),
         price_volatility |-> RoundHalfEven(1000 * (hi - lo), ReplaceZero(mean))]

\* lines 294-299: the groups, in ascending key order
RouteAnalysis(recs) ==
    LET Present(route) == \E i \in 1..Len(recs) : recs[i].route = route
        keys == SelectSeq(RouteOrder, Present)
    IN  [i \in 1..Len(keys) |-> RouteRow(recs, keys[i])]

IsArbitrage_NonStrict(row) ==
    row.price_volatility >= VolatilityThreshold /\ row.price_count >= MinCount
\* lines 308-311: the filter
IsArbitrage(row) ==
    row.price_volatility > VolatilityThreshold /\ row.price_count >= MinCount

InOrder_Ascending(a, b) == a.price_volatility <= b.price_volatility
\* line 311: sort_values('price_volatility', ascending=False)
InOrder(a, b) == a.price_volatility >= b.price_volatility

\* row put into an already sorted sequence, behind the rows it may follow
InsertRow(sorted, row) ==
    LET before == {k \in 1..Len(sorted) : InOrder(sorted[k], row)}
        n == Cardinality(before)
    IN  SubSeq(sorted, 1, n) \o <<row>> \o SubSeq(sorted, n + 1, Len(sorted))

\* line 311: sort_values on the few rows of a result: the default sort works
\* by insertion on short arrays, so rows of equal volatility keep the order
\* they arrive in.  pandas promises that order for no input.
RECURSIVE SortValues(_)
SortValues(rows) ==
    IF rows = <<>> THEN <<>>
    ELSE InsertRow(SortValues(SubSeq(rows, 1, Len(rows) - 1)), rows[Len(rows)])

\* lines 286-313
DetectResult(recs) ==
    IF recs = <<>> THEN <<>>
    ELSE SortValues(SelectSeq(RouteAnalysis(recs), IsArbitrage))

NoResult == [kind |-> "none", count |-> 0, min_price |-> 0, max_price |-> 0,
             avg_price |-> 0, price_spread |-> 0, volatility |-> 0]

\* lines 407-437, after the fetch: the single-route statistics
RouteDetails(recs, route_code) ==
    LET prices == PricesOf(recs, Upper(route_code))
    IN  IF prices = <<>> THEN [NoResult EXCEPT !.kind = "not_found"]
        ELSE IF Sum(prices) = 0
        THEN [NoResult EXCEPT !.kind = "error"]     \* ZeroDivisionError, line 429
        ELSE [kind |-> "ok",
              count |-> Len(prices),
              min_price |-> Min(prices),
              max_price |-> Max(prices),
              avg_price |-> RoundHalfEven(100 * Sum(prices), Len(prices)),
              price_spread |-> Max(prices) - Min(prices),
              volatility |->
                  RoundHalfEven(1000 * (Max(prices) - Min(prices)) * Len(prices),
                                Sum(prices))]

Detect ==
    /\ dstate = "ready"
    /\ opportunities' = DetectResult(records)
    /\ dstate' = "detected"
    /\ UNCHANGED <<records, route_result>>
    /\ UNCHANGED <<tokvars, normvars>>

GetRouteDetails ==
    /\ dstate = "ready"
    /\ \E code \in RouteCodes : route_result' = RouteDetails(records, code)
    /\ dstate' = "detailed"
    /\ UNCHANGED <<records, opportunities>>
    /\ UNCHANGED <<tokvars, normvars>>

-----------------------------------------------------------------------------
(* Specifications *)

SeqsUpTo(S, n) == UNION {[1..k -> S] : k \in 0..n}

NormIdle ==
    /\ proposals = <<>>
    /\ idx = 1
    /\ freight = [bound |-> FALSE, kind |-> "absent"]
    /\ freight_data = <<>>
    /\ nstate = "idle"

DetectIdle ==
    /\ records = <<>>
    /\ dstate = "idle"
    /\ opportunities = <<>>
    /\ route_result = NoResult

CacheInit ==
    /\ clock = 0
    /\ ticks = 0
    /\ access_token = None
    /\ token_expires_at = None
    /\ grants = 0
    /\ listing_requests = 0
    /\ expiry_cycle = 0
    /\ stamp = NoStamp

CallersInit ==
    /\ pc = [t \in Threads |-> "idle"]
    /\ op = [t \in Threads |-> "get_access_token"]
    /\ resp = [t \in Threads |-> NoResp]
    /\ ret = [t \in Threads |-> NoRet]
    /\ outcome = [t \in Threads |-> "none"]
    /\ sent = [t \in Threads |-> 0]
    /\ seen = [t \in Threads |-> NoSeen]

\* Spec: the configured service, its callers all inside get_access_token on
\* the one shared api_client (line 317).
Init ==
    /\ creds = [api_key |-> Some(1), client_id |-> Some(1), client_secret |-> Some(1)]
    /\ CacheInit
    /\ CallersInit
    /\ NormIdle
    /\ DetectIdle

Next ==
    \/ Tick
    \/ \E t \in Threads :
         \/ Start(t, "get_access_token")
         \/ Check(t)
         \/ ReturnCached(t)
         \/ Post(t)
         \/ StoreToken(t)
         \/ StoreExpiry(t)
         \/ Return(t)
         \/ AfterToken(t)

Spec == Init /\ [][Next]_vars

\* SpecSeq: one caller running any operation, one after the other, under
\* any environment (each credential set or not).
InitSeq ==
    /\ creds \in [api_key : {None, Some(1)}, client_id : {None, Some(1)},
                  client_secret : {None, Some(1)}]
    /\ CacheInit
    /\ CallersInit
    /\ NormIdle
    /\ DetectIdle

NextSeq ==
    \/ Tick
    \/ \E k \in ClientOps \cup HandlerOps : Start(1, k)
    \/ Check(1)
    \/ ReturnCached(1)
    \/ Post(1)
    \/ StoreToken(1)
    \/ StoreExpiry(1)
    \/ Return(1)
    \/ AfterToken(1)
    \/ ListingGet(1)

SpecSeq == InitSeq /\ [][NextSeq]_vars

\* SpecNorm: extract_freight_data run on every sequence of up to MaxOffers
\* offers of the pool.
InitNorm ==
    /\ creds = [api_key |-> Some(1), client_id |-> Some(1), client_secret |-> Some(1)]
    /\ CacheInit
    /\ CallersInit
    /\ proposals \in SeqsUpTo(OfferPool, MaxOffers)
    /\ idx = 1
    /\ freight = [bound |-> FALSE, kind |-> "absent"]
    /\ freight_data = <<>>
    /\ nstate = "running"
    /\ DetectIdle

NextNorm == ExtractStep \/ ExtractReturn

SpecNorm == InitNorm /\ [][NextNorm]_vars

\* SpecDetect: the analysis run on every sequence of up to MaxRecords
\* normalised records over the model's routes and prices.
InitDetect ==
    /\ creds = [api_key |-> Some(1), client_id |-> Some(1), client_secret |-> Some(1)]
    /\ CacheInit
    /\ CallersInit
    /\ NormIdle
    /\ records \in SeqsUpTo([route : Routes, price : Prices], MaxRecords)
    /\ dstate = "ready"
    /\ opportunities = <<>>
    /\ route_result = NoResult

NextDetect == Detect \/ GetRouteDetails

SpecDetect == InitDetect /\ [][NextDetect]_vars

-----------------------------------------------------------------------------
(* Properties of the token cache *)

\* get_access_token has returned or raised for caller t's current operation.
Completed(t) ==
    seen[t].called /\ pc[t] \notin {"l170", "l182", "l183", "l189", "l193"}

\* Callers that found the cache expired or empty at line 169 while g grants
\* had been sent, and whose call has returned a token.
Racers(g) ==
    {t \in Threads :
        /\ Completed(t)
        /\ ret[t].kind = "ok"
        /\ seen[t].grants = g
        /\ (seen[t].tok = None \/ seen[t].exp = None \/ seen[t].now >= seen[t].exp[1])}

\* C1: callers that race past the same expired (or empty) cache send exactly
\* one grant between them and all return the token of that grant.
C1_OneGrantPerRace ==
    \A g \in 0..MaxGrants :
        Cardinality(Racers(g)) >= 2 =>
            /\ Cardinality({t \in Racers(g) : sent[t] = 1}) = 1
            /\ \A t \in Racers(g) : sent[t] <= 1 /\ ret[t].value = Some(g + 1)

\* C2: whenever a caller is about to read the cache at line 169 and finds a
\* token and an expiry there, the two were stored from the same grant response.
C2_PairFromOneCycle ==
    \A t \in Threads :
        (pc[t] = "l169" /\ access_token # None /\ token_expires_at # None)
            => TokenCycle = expiry_cycle

\* The claim's condition for a call to go to the token endpoint, on what the
\* call read at line 169: nothing cached, or now >= expires_at.
NeedsGrant(t) ==
    seen[t].tok = None \/ seen[t].exp = None \/ seen[t].now >= seen[t].exp[1]

\* C3: a single caller's call sends a grant iff nothing is cached or
\* now >= expires_at, then exactly one; otherwise it returns the cached value
\* and sends nothing.
C3_GrantIffExpired ==
    /\ sent[1] <= 1
    /\ Completed(1) =>
          IF NeedsGrant(1)
          THEN sent[1] = 1
          ELSE sent[1] = 0 /\ ret[1] = Returned(seen[1].tok)

\* C3 witness: a completed call served from the cache, and before it a grant.
C3_Witness ==
    /\ Completed(1) /\ ~NeedsGrant(1) /\ sent[1] = 0
    /\ ret[1].kind = "ok" /\ grants >= 1 /\ clock > 0

\* C4: with a credential missing, no request reaches the token endpoint or
\* the listing endpoint and every operation ends "not configured".
C4_NotConfiguredNoNetwork ==
    ~is_configured =>
        /\ grants = 0
        /\ listing_requests = 0
        /\ \A t \in Threads : outcome[t] \in {"none", "not_configured"}

\* C10: the stored expiry is the time of the store plus the reported
\* expires_in (3600 when none is reported) minus 60, whatever the ttl.
C10_ExpiryIsNowPlusTtlMinusMargin ==
    token_expires_at # None =>
        token_expires_at[1] =
            stamp.now
            + (IF stamp.expires_in.kind = "int" THEN stamp.expires_in.n ELSE 3600)
            - 60

\* C10 witness: a refresh with a ttl below the margin has stored an expiry
\* that lies before the time of the refresh.
C10_Witness ==
    /\ token_expires_at # None
    /\ stamp.expires_in.kind = "int" /\ stamp.expires_in.n < 60
    /\ token_expires_at[1] < stamp.now
    /\ stamp.now > 0

\* C11: a call of get_access_token that raised (the endpoint rejected the
\* grant, or the response lacked access_token or carried a non-numeric
\* expires_in) has left access_token and token_expires_at as the call found
\* them at line 169.  Stated for the configured client, the case the claim
\* is about.
C11_FailedCallLeavesCache ==
    (is_configured /\ Completed(1) /\ ret[1].kind = "error") =>
        /\ access_token = seen[1].tok
        /\ token_expires_at = seen[1].exp

-----------------------------------------------------------------------------
(* Properties of extract_freight_data *)

\* C5: extract_freight_data never fails as a whole, whatever records the
\* input holds and wherever they stand: a failing record is skipped and the
\* loop goes on to the end.
C5_NeverFailsAsAWhole == nstate # "raised"

\* A raw offer in which every sub-structure is of its expected type or missing.
WellFormed(p) ==
    /\ p.kind = "dict"
    /\ p.freight.kind \in {"dict", "absent"}
    /\ p.freight.publication.kind \in {"dict", "absent"}
    /\ p.freight.publication.price.kind \in {"dict", "absent"}
    /\ p.freight.capacity.kind \in {"dict", "absent"}
    /\ p.freight.spots.kind \in {"list", "absent"}
    /\ \A i \in 1..Len(p.freight.spots.items) :
          LET spot == p.freight.spots.items[i]
          IN  /\ spot.kind = "dict"
              /\ spot.place.kind \in {"dict", "absent"}
              /\ spot.place.address.kind \in {"dict", "absent"}
              /\ spot.place.address.country.kind \in {"str", "absent"}
              /\ spot.place.address.locality.kind \in {"str", "absent"}

\* The number of stops an offer lists.
StopCount(p) ==
    IF p.freight.kind = "dict" /\ p.freight.spots.kind = "list"
    THEN Len(p.freight.spots.items) ELSE 0

IsConvertible(p) == StopCount(p) >= 2

\* C6: on well-formed offers the output holds one record for each offer with
\* at least two stops, none for the others, in the order of the input.
C6_OrderPreservingSubsequence ==
    (\A i \in 1..Len(proposals) : WellFormed(proposals[i])) =>
        /\ nstate # "raised"
        /\ LET done == SelectSeq(SubSeq(proposals, 1, idx - 1), IsConvertible)
           IN  /\ Len(freight_data) = Len(done)
               /\ \A i \in 1..Len(done) :
                     freight_data[i].freight_id = done[i].freight.id

\* C6 witness: a one-stop offer between two convertible offers was dropped
\* and the two records came out in input order.
C6_Witness ==
    /\ nstate = "returned"
    /\ Len(proposals) = 3
    /\ \A i \in 1..3 : WellFormed(proposals[i])
    /\ StopCount(proposals[1]) = 2
    /\ StopCount(proposals[2]) = 1
    /\ StopCount(proposals[3]) = 3
    /\ Len(freight_data) = 2
    /\ freight_data[1].route = "DE-FR"
    /\ freight_data[2].route = "PL-DE"

-----------------------------------------------------------------------------
(* Properties of the analysis *)

\* The volatility of a group of prices as the data model defines it:
\* (max - min) / (mean, or 1 for a zero mean), the mean rounded to 2 places,
\* the quotient to 3; in thousandths.
GroupVolatility(ps) ==
    LET mean == RoundHalfEven(100 * Sum(ps), Len(ps))
    IN  RoundHalfEven(1000 * (100 * Max(ps) - 100 * Min(ps)),
                      IF mean = 0 THEN 100 ELSE mean)

RowsFor(route) == {i \in 1..Len(opportunities) : opportunities[i].route = route}

\* C7: detect returns a route, once, iff its group has volatility > 0.2 and
\* at least 2 records.
C7_ThresholdFilter ==
    dstate = "detected" =>
        \A route \in Routes :
            LET ps == PricesOf(records, route)
            IN  Cardinality(RowsFor(route)) =
                    IF Len(ps) >= 2 /\ GroupVolatility(ps) > 200 THEN 1 ELSE 0

\* C7 witness: one route with volatility exactly 0.2 on two records was left
\* out while the other route, above the threshold, was returned.
C7_Witness ==
    /\ dstate = "detected"
    /\ Len(opportunities) = 1
    /\ \E route \in Routes :
          /\ Len(PricesOf(records, route)) = 2
          /\ GroupVolatility(PricesOf(records, route)) = 200
          /\ RowsFor(route) = {}

\* Position of a route's first record in the input.
FirstSeen(route) ==
    CHOOSE i \in 1..Len(records) :
        /\ records[i].route = route
        /\ \A j \in 1..(i - 1) : records[j].route # route

\* C8 as claimed: descending volatility, ties in first-seen input order.
C8_TiesInFirstSeenOrder ==
    dstate = "detected" =>
        \A i, j \in 1..Len(opportunities) :
            i < j =>
                \/ opportunities[i].price_volatility > opportunities[j].price_volatility
                \/ /\ opportunities[i].price_volatility = opportunities[j].price_volatility
                   /\ FirstSeen(opportunities[i].route) < FirstSeen(opportunities[j].route)

\* C8 as amended: the result is in descending order of volatility.
C8_SortedDescending ==
    dstate = "detected" =>
        \A i, j \in 1..Len(opportunities) :
            i < j =>
                opportunities[i].price_volatility >= opportunities[j].price_volatility

\* C8 witness: two routes of different volatility, returned in the reverse
\* of the order the grouping listed them in.
C8_Witness ==
    /\ dstate = "detected"
    /\ Len(opportunities) = 2
    /\ opportunities[1].route = RouteOrder[2]
    /\ opportunities[1].price_volatility > opportunities[2].price_volatility

\* C9: no volatility computation fails on a route whose mean price is zero.
C9_ZeroMeanNeverFails ==
    dstate = "detailed" => route_result.kind # "error"

====
